---- MODULE Spec2Model ----
(***************************************************************************)
(* semantic-terminal: the session driver (SemanticTerminal over a          *)
(* PTYSession) and the session manager that holds it, as a state machine.  *)
(* One driver object is modelled; it is either used directly or created    *)
(* and held by the SessionManager.                                         *)
(***************************************************************************)
EXTENDS Integers, Sequences, FiniteSets, TLC

(* ------------------------------ bounds -------------------------------- *)

\* number of times the model lets PTYSession.start spawn a child process
MaxSpawns == 2
\* number of messages the model lets the history hold
MaxHistory == 2
\* number of operations the model lets callers issue on the driver and
\* the manager
MaxCalls == 3
\* number of sessions the model lets callers ask the manager to create
MaxIds == 4
\* number of parsers the model lets callers register one by one in each
\* collection of a registry
MaxSingles == 2
\* the clock of the model stops at this time
MaxTime == 2
\* the count of automatic responses to one dialog stops at this number
MaxAnswered == 2
\* the largest option number a select response names
MaxOption == 3
\* number of register calls the model lets callers make on a fingerprint
\* registry
MaxRegisters == 3

(* ------------------------------ values -------------------------------- *)

SessionState ==
  {"starting", "idle", "thinking", "responding", "tool_running",
   "confirming", "error", "exited"}

\* What the last ten lines of the virtual screen show, by the class of
\* content the bundled parsers tell apart:
\*   blank   nothing a parser recognises (the empty screen)
\*   prompt  a line "❯ " / "$ "
\*   busy    a spinner line with "esc to interrupt"
\*   err     a line with "Error:" / "command not found"
\*   dlgA    "srv - tool(k: v) (MCP) / 1. Yes / 2. .. / 3. No / Esc to cancel"
\*   dlgB    "Continue? [Y/n]"
\*   dlgDots "Reading package lists... Done / Continue? [Y/n]"
ScreenKinds == {"blank", "prompt", "busy", "err", "dlgA", "dlgB", "dlgDots"}

\* Two screens of the same class with different text (v) are different
\* strings for hasScreenChanged.
Variants == {0}
Screens == [kind : ScreenKinds, v : Variants]
EmptyScreen == [kind |-> "blank", v |-> 0]

Presets == {"claude-code", "shell"}

\* PermissionDecision
Decisions == {"allow", "confirm", "deny"}

NoConfirm == [info |-> "none", parser |-> "none"]
NoOp == [op |-> "none", via |-> "none", err |-> "none"]
Result(op, via, err) == [op |-> op, via |-> via, err |-> err]
NoWait == [status |-> "none", target |-> "none", exitSeen |-> FALSE]
NoExec == [pc |-> "none", result |-> "none", armed |-> FALSE, backSeen |-> FALSE]
\* an exec call that has settled with result r; the timeout of its wait is
\* cleared (or has fired)
Settled(e, r) == [pc |-> "done", result |-> r, armed |-> FALSE,
                  backSeen |-> e.backSeen]

(* ----------------------------- parsers -------------------------------- *)

\* ConfirmInfo "A": type options, with tool info; "B": type yesno, no tool.
InfoHasTool(info) == info = "A"
InfoType(info) == IF info = "A" THEN "options" ELSE "yesno"

\* registry.detectConfirm over the confirm parsers of the loaded preset
detectConfirm(reg, scr) ==
  CASE reg = "claude-code" /\ scr.kind = "dlgA" ->
         [info |-> "A", parser |-> "claude-code-confirm"]
    [] reg = "claude-code" /\ scr.kind \in {"dlgB", "dlgDots"} ->
         [info |-> "B", parser |-> "claude-code-confirm"]
    [] reg = "shell" /\ scr.kind \in {"dlgB", "dlgDots"} ->
         [info |-> "B", parser |-> "yesno-confirm"]
    [] OTHER -> NoConfirm

\* registry.detectState over the state parsers of the loaded preset:
\* the state of the best-confidence result, "none" for null
detectState(reg, scr) ==
  CASE reg = "claude-code" /\ scr.kind \in {"dlgA", "dlgB", "dlgDots"} ->
         "confirming"
    [] reg = "claude-code" /\ scr.kind = "busy" -> "thinking"
    [] reg = "shell" /\ scr.kind \in {"busy", "dlgDots"} -> "tool_running"
    [] reg \in Presets /\ scr.kind = "prompt" -> "idle"
    [] reg \in Presets /\ scr.kind = "err" -> "error"
    [] OTHER -> "none"

\* ConfirmParser.formatResponse of the two bundled confirm parsers
formatResponse(parser, info, action) ==
  IF parser = "claude-code-confirm"
  THEN CASE action = "confirm" ->
              IF InfoType(info) = "options" THEN "1\\r" ELSE "y\\r"
         [] action = "deny" ->
              IF InfoType(info) = "options" THEN "3\\r" ELSE "n\\r"
         [] OTHER -> "\\r"
  ELSE CASE action = "confirm" -> "y\\r"
         [] action = "deny" -> "n\\r"
         [] OTHER -> "\\r"

(* ------------------------------ state --------------------------------- *)

VARIABLES
  driver,      \* "absent" | "direct" | "managed": how the driver was made
  tState,      \* SemanticTerminal._state
  sState,      \* PTYSession._state
  pty,         \* PTYSession.pty: 0 for null, else the child it refers to
  spawned,     \* number of children spawned so far
  running,     \* children whose onExit has not been delivered yet
  timer,       \* SemanticTerminal.stateCheckTimer is set
  registry,    \* preset whose parsers the registry holds, "none" if empty
  checker,     \* decision of the installed PermissionChecker, "none" if absent
  pending,     \* SemanticTerminal.pendingConfirm
  screen,      \* last ten lines of the virtual screen
  lastScreen,  \* PTYSession.lastScreenContent
  history,     \* PTYSession._history (contents of the user messages)
  written,     \* byte strings handed to pty.write in the last step
  twait,       \* a SemanticTerminal.waitForState promise
  exec,        \* a SemanticTerminal.exec call
  closing,     \* the PTYSession.close calls waiting: "driver", "destroy"
  inMap,       \* the manager's map holds the session
  mPending,    \* ManagedSession.pendingConfirm ("none" for null)
  last,        \* the last public operation and the error it raised
  emitted,     \* events the driver emitted in the last step
  calls,       \* number of public operations called so far
  sessions,    \* SessionManager.sessions and the calls in flight, by id
  quota,       \* the last SessionManager.create threw the quota error
  parsers,     \* the three collections of a ParserRegistry (parser names)
  regLast,     \* the last operation on that registry and its argument
  found,       \* the last dispatch over it: what each parser did, the result
  order,       \* the parsers of each collection in the order of registration
  now,         \* Date.now(), in units of the idle timeout
  lastActivity,  \* ManagedSession.lastActivity of the sessions of the map, by id
  mLastActivity, \* ManagedSession.lastActivity of the manager-created driver
  swept,       \* the sessions the last run of the idle sweep destroyed
  execOut,     \* the last SessionManager.exec that returned: input and value
  answered,    \* responses the tick has written to the dialog now on display
  sweepOn,     \* SessionManager.cleanupTimer is running
  dAll,        \* a SessionManager.destroyAll call: "none", "waiting", "done"
  formatted,   \* the last formatResponse call: parser, input and value
  fingerprints,  \* FingerprintRegistry.fingerprints: id -> fingerprint
  byCategory,  \* FingerprintRegistry.byCategory: category -> list
  registers    \* number of FingerprintRegistry.register calls so far

\* the driver, its PTY session and its entry in the manager
driverVars ==
  <<driver, tState, sState, pty, spawned, running, timer, registry, checker,
    pending, screen, lastScreen, history, twait, exec, closing, inMap,
    mPending, last, emitted, written, calls, answered>>

\* the manager's map as a whole
managerVars == <<sessions, quota, sweepOn, dAll>>

\* a ParserRegistry with its collections as lists
registryVars == <<parsers, regLast, found, order>>

\* bestResult = null, bestConfidence = 0
NoResult == [idx |-> 0, parser |-> "none", confidence |-> 0]

\* no dispatch since the registry was last changed
NoFound == [kind |-> "none", beh |-> [n \in {} |-> 0], result |-> NoResult]

\* the clock and what the manager records against it
activityVars == <<now, lastActivity, mLastActivity, swept>>

\* what the manager hands back
outputVars == <<execOut>>

\* no exec of the manager has returned
NoOut == [result |-> "none", parse_output |-> "none", command |-> "none",
          duration |-> 0, returned |-> "none"]

\* a confirm parser asked to format a response
formatVars == <<formatted>>

\* a FingerprintRegistry
fingerprintVars == <<fingerprints, byCategory, registers>>

vars == <<driverVars, managerVars, registryVars, activityVars, outputVars,
          formatVars, fingerprintVars>>

\* ConfirmResponse.option is left out
NoOption == [kind |-> "absent", n |-> 0]

\* no formatResponse call yet
NoFormat ==
  [parser |-> "none", type |-> "none",
   response |-> [action |-> "none", option |-> NoOption, value |-> "absent"],
   bytes |-> <<>>]

\* Fingerprint, by the fields the registry reads: id, category, priority;
\* tag tells two fingerprints of the same id apart (their other fields)
FpIds == {"a", "b"}
Categories == {"spinner", "prompt"}
Fingerprints ==
  [id : FpIds, category : Categories, priority : {1, 2}, tag : {1, 2}]
\* this.fingerprints.get(id) is undefined
NoFingerprint == [id |-> "none", category |-> "none", priority |-> 0, tag |-> 0]

\* SessionManagerOptions.maxSessions as the model's manager is configured
maxSessions == 2
Ids == 1..MaxIds

Init ==
  /\ driver = "absent"
  /\ tState = "starting"
  /\ sState = "starting"
  /\ pty = 0
  /\ spawned = 0
  /\ running = {}
  /\ timer = FALSE
  /\ registry = "none"
  /\ checker = "none"
  /\ pending = NoConfirm
  /\ screen = EmptyScreen
  /\ lastScreen = EmptyScreen
  /\ history = <<>>
  /\ written = <<>>
  /\ twait = NoWait
  /\ exec = NoExec
  /\ closing = {}
  /\ inMap = FALSE
  /\ mPending = "none"
  /\ last = NoOp
  /\ emitted = <<>>
  /\ calls = 0
  /\ sessions = [i \in Ids |-> "unused"]
  /\ quota = FALSE
  /\ parsers = [state |-> <<>>, output |-> <<>>, confirm |-> <<>>]
  /\ regLast = [op |-> "none", arg |-> "none"]
  /\ found = NoFound
  /\ order = [state |-> <<>>, output |-> <<>>, confirm |-> <<>>]
  /\ now = 0
  /\ lastActivity = [i \in Ids |-> 0]
  /\ mLastActivity = 0
  /\ swept = {}
  /\ execOut = NoOut
  /\ answered = 0
  /\ sweepOn = TRUE
  /\ dAll = "none"
  /\ formatted = NoFormat
  /\ fingerprints = [id \in FpIds |-> NoFingerprint]
  /\ byCategory = [c \in Categories |-> <<>>]
  /\ registers = 0

(* ------------------------- event listeners ---------------------------- *)

Ev(name, new, prev) == [ev |-> name, new |-> new, prev |-> prev]

\* exec, once its two waits are over: the new screen content goes to
\* registry.parseOutput and the parsed output or the raw string is returned
execReturn(e) == Settled(e, "returned")

\* PTYSession.waitForState('idle', timeoutMs) as exec calls it: resolved at
\* once when the session's own state is idle, else a timeout is set and a
\* listener is added
sessionWaitForState(e) ==
  IF sState = "idle" THEN execReturn(e)
  ELSE [e EXCEPT !.pc = "back", !.armed = TRUE]

\* sessionWaitHandler with a fault: on error / exited the timeout is cleared
\* and the listener removed, but the promise is not rejected
sessionWaitHandlerSilent(e, state) ==
  IF e.pc # "back" THEN e
  ELSE IF state = "idle" THEN execReturn(e)
  ELSE IF state \in {"error", "exited"}
       THEN [e EXCEPT !.armed = FALSE]
       ELSE e

\* listener of PTYSession.waitForState on the session's state_change
sessionWaitHandler(e, state) ==
  IF e.pc # "back" THEN e
  ELSE IF state = "idle" THEN execReturn(e)
  ELSE IF state \in {"error", "exited"}
       THEN Settled(e, "ended")
       ELSE e

\* listener of SemanticTerminal.waitForStateChange('idle') on the driver's
\* state_change, and what exec does when it resolves; backSeen records that
\* the driver came back to idle during the second wait
waitForStateChangeHandler(e, state) ==
  IF e.pc = "leave" /\ state # "idle" THEN sessionWaitForState(e)
  ELSE IF e.pc = "back" /\ state = "idle" THEN [e EXCEPT !.backSeen = TRUE]
  ELSE e

\* listener of SemanticTerminal.waitForState on the driver's state_change
waitForStateHandler(w, newState) ==
  IF w.status = "pending" /\ newState = w.target
  THEN [NoWait EXCEPT !.status = "resolved"]
  ELSE w

\* PTYSession.write: the error it throws, "none" when the bytes are written
writeError ==
  IF pty = 0 THEN "not_started"
  ELSE IF sState = "exited" THEN "exited"
  ELSE "none"

(* --------------------------- environment ------------------------------ *)

\* a step of the environment (child process, timers): no operation called
Env ==
  /\ last' = NoOp
  /\ UNCHANGED <<calls, managerVars, registryVars, activityVars, outputVars, formatVars, fingerprintVars>>

\* PTYSession.handleData: a running child prints, the screen shows s
ScreenChange(s) ==
  /\ running # {}
  /\ s # screen
  /\ screen' = s
  /\ answered' = IF s.kind = screen.kind THEN answered ELSE 0
  /\ Env
  /\ emitted' = <<Ev("data", "-", "-")>>
  /\ written' = <<>>
  /\ UNCHANGED <<driver, tState, sState, pty, spawned, running, timer,
                 registry, checker, pending, lastScreen, history, twait, exec,
                 closing, inMap, mPending>>

\* stateChange with a fault: the two arguments of the event are swapped
stateChangeSwapped(newState) == <<Ev("state_change", tState, newState)>>

\* the event SemanticTerminal.setState emits when it changes the state
stateChange(newState) == <<Ev("state_change", newState, tState)>>

\* SemanticTerminal.setState as the tick calls it, with the listeners of
\* state_change
setState(newState) ==
  /\ tState' = newState
  /\ twait' = IF newState = tState THEN twait
              ELSE waitForStateHandler(twait, newState)
  /\ exec' = IF newState = tState THEN exec
             ELSE waitForStateChangeHandler(exec, newState)

\* hasScreenChanged with a fault: every tick takes the screen as changed
hasScreenChangedAlways == TRUE

\* PTYSession.hasScreenChanged: the last ten lines differ from the ones the
\* previous changed tick saw (checkState stores the new ones)
hasScreenChanged == screen # lastScreen

\* the interval timer ran checkState and it returned
Tick == Result("tick", "timer", "none")

\* enteringConfirming with a fault: every detection counts as a new one
enteringConfirmingAlways == TRUE

\* the guard of checkState around setState('confirming') and the emit of
\* confirm_required: the driver is not in confirming yet
enteringConfirming == tState # "confirming"

\* the tick wrote a response: one more for the dialog on display
answeredByTick ==
  answered' = IF written' # <<>> /\ answered < MaxAnswered
              THEN answered + 1 ELSE answered

\* the state_change listener SessionManager.create adds to the driver
stateChangeListener ==
  mLastActivity' =
    IF driver = "managed"
         /\ \E k \in DOMAIN emitted' : emitted'[k].ev = "state_change"
    THEN now ELSE mLastActivity

\* checkState with a fault: on a detected confirmation the state detectors
\* are asked too and their result, if any, is the state the driver takes
checkStateDetectorsFirst ==
  /\ timer
  /\ UNCHANGED <<driver, sState, pty, spawned, running, timer, registry,
                 checker, screen, history, closing, inMap, calls, managerVars,
                 registryVars, now, lastActivity, swept, outputVars, formatVars, fingerprintVars>>
  /\ IF ~hasScreenChanged
     THEN /\ emitted' = <<>>
          /\ written' = <<>>
          /\ last' = Tick
          /\ UNCHANGED <<tState, pending, lastScreen, twait, exec, mPending>>
     ELSE LET c == detectConfirm(registry, screen)
              auto == /\ c # NoConfirm
                      /\ checker \in {"allow", "deny"}
                      /\ InfoHasTool(c.info)
              action == IF checker = "allow" THEN "confirm" ELSE "deny"
          IN /\ lastScreen' = screen
             /\ IF auto
                THEN \* this.confirm(...) ; return
                     /\ IF writeError = "none"
                        THEN /\ written' =
                                  <<formatResponse(c.parser, c.info, action)>>
                             /\ pending' = NoConfirm
                             /\ last' = Tick
                        ELSE \* the write throws out of the timer callback
                             /\ written' = <<>>
                             /\ pending' = c
                             /\ last' = Result("tick", "timer", writeError)
                     /\ emitted' = <<>>
                     /\ UNCHANGED <<tState, twait, exec, mPending>>
                ELSE IF c # NoConfirm
                THEN /\ pending' = c
                     /\ written' = <<>>
                     /\ last' = Tick
                     /\ IF tState # "confirming"
                        THEN /\ setState(IF detectState(registry, screen) # "none"
                                         THEN detectState(registry, screen)
                                         ELSE "confirming")
                             /\ emitted' =
                                  <<Ev("state_change", "confirming", tState),
                                    Ev("confirm_required", c.info, "-")>>
                             /\ mPending' = IF driver = "managed"
                                            THEN c.info ELSE mPending
                        ELSE /\ emitted' = <<>>
                             /\ UNCHANGED <<tState, twait, exec, mPending>>
                ELSE LET s == detectState(registry, screen)
                     IN /\ UNCHANGED <<pending, mPending>>
                        /\ written' = <<>>
                        /\ last' = Tick
                        /\ IF s # "none" /\ s # tState
                           THEN /\ setState(s)
                                /\ emitted' = <<Ev("state_change", s, tState)>>
                           ELSE /\ emitted' = <<>>
                                /\ UNCHANGED <<tState, twait, exec>>
  /\ stateChangeListener
  /\ answeredByTick

\* SemanticTerminal.checkState, run by the interval timer
checkState ==
  /\ timer
  /\ UNCHANGED <<driver, sState, pty, spawned, running, timer, registry,
                 checker, screen, history, closing, inMap, calls, managerVars,
                 registryVars, now, lastActivity, swept, outputVars, formatVars, fingerprintVars>>
  /\ IF ~hasScreenChanged
     THEN /\ emitted' = <<>>
          /\ written' = <<>>
          /\ last' = Tick
          /\ UNCHANGED <<tState, pending, lastScreen, twait, exec, mPending>>
     ELSE LET c == detectConfirm(registry, screen)
              auto == /\ c # NoConfirm
                      /\ checker \in {"allow", "deny"}
                      /\ InfoHasTool(c.info)
              action == IF checker = "allow" THEN "confirm" ELSE "deny"
          IN /\ lastScreen' = screen
             /\ IF auto
                THEN \* this.confirm(...) ; return
                     /\ IF writeError = "none"
                        THEN /\ written' =
                                  <<formatResponse(c.parser, c.info, action)>>
                             /\ pending' = NoConfirm
                             /\ last' = Tick
                        ELSE \* the write throws out of the timer callback
                             /\ written' = <<>>
                             /\ pending' = c
                             /\ last' = Result("tick", "timer", writeError)
                     /\ emitted' = <<>>
                     /\ UNCHANGED <<tState, twait, exec, mPending>>
                ELSE IF c # NoConfirm
                THEN /\ pending' = c
                     /\ written' = <<>>
                     /\ last' = Tick
                     /\ IF enteringConfirming
                        THEN /\ setState("confirming")
                             /\ emitted' =
                                  stateChange("confirming")
                                    \o <<Ev("confirm_required", c.info, "-")>>
                             /\ mPending' = IF driver = "managed"
                                            THEN c.info ELSE mPending
                        ELSE /\ emitted' = <<>>
                             /\ UNCHANGED <<tState, twait, exec, mPending>>
                ELSE LET s == detectState(registry, screen)
                     IN /\ UNCHANGED <<pending, mPending>>
                        /\ written' = <<>>
                        /\ last' = Tick
                        /\ IF s # "none" /\ s # tState
                           THEN /\ setState(s)
                                /\ emitted' = stateChange(s)
                           ELSE /\ emitted' = <<>>
                                /\ UNCHANGED <<tState, twait, exec>>
  /\ stateChangeListener
  /\ answeredByTick

\* ChildExit with a fault: the manager's exit listener does not delete the
\* map entry
ChildExitKeepsEntry(c) ==
  /\ c \in running
  /\ running' = running \ {c}
  /\ sState' = "exited"
  /\ exec' = IF sState # "exited" THEN sessionWaitHandler(exec, "exited")
             ELSE exec
  /\ timer' = FALSE
  /\ tState' = "exited"
  /\ emitted' = <<Ev("exit", "-", "-")>>
  /\ written' = <<>>
  /\ closing' = {}
  /\ pty' = 0
  /\ twait' = IF twait.status = "pending"
              THEN [twait EXCEPT !.exitSeen = TRUE] ELSE twait
  /\ Env
  /\ UNCHANGED answered
  /\ UNCHANGED <<driver, spawned, registry, checker, pending, screen,
                 lastScreen, history, mPending, inMap>>

\* pty.onExit of child c: PTYSession sets its state, emits exit and cleans
\* up; the driver's exit listener stops the timer, sets exited and emits
\* exit; the manager's exit listener deletes the map entry; a close that
\* was waiting resolves
ChildExit(c) ==
  /\ c \in running
  /\ running' = running \ {c}
  /\ sState' = "exited"
  /\ exec' = IF sState # "exited" THEN sessionWaitHandler(exec, "exited")
             ELSE exec
  /\ timer' = FALSE
  /\ tState' = "exited"
  /\ emitted' = <<Ev("exit", "-", "-")>>
  /\ written' = <<>>
  /\ inMap' = IF driver = "managed" THEN FALSE ELSE inMap
  /\ closing' = {}
  /\ pty' = 0
  /\ twait' = IF twait.status = "pending"
              THEN [twait EXCEPT !.exitSeen = TRUE] ELSE twait
  /\ Env
  /\ UNCHANGED answered
  /\ UNCHANGED <<driver, spawned, registry, checker, pending, screen,
                 lastScreen, history, mPending>>

\* closeTimeout with a fault: the destroy that awaited the close does not
\* delete the session
closeTimeoutKeepsEntry(k) ==
  /\ k \in closing
  /\ closing' = closing \ {k}
  /\ pty' = 0
  /\ Env
  /\ UNCHANGED answered
  /\ emitted' = <<>>
  /\ written' = <<>>
  /\ UNCHANGED <<driver, tState, sState, spawned, running, timer, registry,
                 checker, pending, screen, lastScreen, history, twait, exec,
                 mPending, inMap>>

\* the 3 s timer of a waiting PTYSession.close: pty.kill, resolve, cleanup;
\* a destroy that awaited the close then deletes the session
closeTimeout(k) ==
  /\ k \in closing
  /\ closing' = closing \ {k}
  /\ pty' = 0
  /\ inMap' = IF k = "destroy" THEN FALSE ELSE inMap
  /\ Env
  /\ UNCHANGED answered
  /\ emitted' = <<>>
  /\ written' = <<>>
  /\ UNCHANGED <<driver, tState, sState, spawned, running, timer, registry,
                 checker, pending, screen, lastScreen, history, twait, exec,
                 mPending>>

\* the timer of the wait exec is in: 5 s to leave idle, timeoutMs to come
\* back; the wait rejects and exec with it
execTimeout ==
  /\ exec.armed
  /\ exec' = Settled(exec, IF exec.pc = "leave" THEN "timeout_leave"
                           ELSE "timeout_back")
  /\ Env
  /\ UNCHANGED answered
  /\ emitted' = <<>>
  /\ written' = <<>>
  /\ UNCHANGED <<driver, tState, sState, pty, spawned, running, timer,
                 registry, checker, pending, screen, lastScreen, history,
                 twait, closing, inMap, mPending>>

\* the timer of SemanticTerminal.waitForState fires: the promise rejects
waitTimeout ==
  /\ twait.status = "pending"
  /\ twait' = [twait EXCEPT !.status = "timeout", !.target = "none"]
  /\ Env
  /\ UNCHANGED answered
  /\ emitted' = <<>>
  /\ written' = <<>>
  /\ UNCHANGED <<driver, tState, sState, pty, spawned, running, timer,
                 registry, checker, pending, screen, lastScreen, history,
                 exec, closing, inMap, mPending>>

(* ------------------------- public operations -------------------------- *)

\* who calls: the owner of the driver object, or a caller of the manager
Via == {"driver", "manager"}

\* the driver object exists (a manager call needs no driver: it looks up)
Callable(via) == via = "manager" \/ driver # "absent"
\* SessionManager.getOrThrow finds the session
Found(via) == via = "driver" \/ inMap

\* stamped with a fault: respondToConfirm does not set lastActivity
stampedNotRespond(op, via, err) ==
  /\ via = "manager"
  /\ err # "not_found"
  /\ op \in {"create", "exec", "send", "write", "interrupt"}

\* the operation sets session.lastActivity = Date.now(): create does in the
\* record it builds; exec, send, write and interrupt do once the session is
\* found, before they call the driver; respondToConfirm does in its last
\* statement
stamped(op, via, err) ==
  /\ via = "manager"
  /\ err # "not_found"
  /\ \/ op \in {"create", "exec", "send", "write", "interrupt"}
     \/ op = "respond" /\ err = "none"

\* a public operation was called and ended with err ("none": no error)
Return(op, via, err) ==
  /\ calls < MaxCalls
  /\ calls' = calls + 1
  /\ last' = Result(op, via, err)
  /\ mLastActivity' = IF stamped(op, via, err) THEN now ELSE mLastActivity
  /\ UNCHANGED <<answered, managerVars, registryVars, now, lastActivity, swept, outputVars, formatVars, fingerprintVars>>

\* the operation throws before it changed anything
Reject(op, via, err) ==
  /\ Return(op, via, err)
  /\ emitted' = <<>>
  /\ written' = <<>>
  /\ UNCHANGED <<driver, tState, sState, pty, spawned, running, timer,
                 registry, checker, pending, screen, lastScreen, history,
                 twait, exec, closing, inMap, mPending>>

\* PTYSession.start: spawn a child and hook its data and exit callbacks
spawn ==
  /\ spawned < MaxSpawns
  /\ spawned' = spawned + 1
  /\ pty' = spawned + 1
  /\ running' = running \cup {spawned + 1}

\* new SemanticTerminal(options) by a direct user of the core package:
\* options.registry holds the parsers of preset reg ("none": left out, an
\* empty registry is created), options.permissionChecker decides chk
New(reg, chk) ==
  /\ driver = "absent"
  /\ driver' = "direct"
  /\ registry' = reg
  /\ checker' = chk
  /\ last' = NoOp
  /\ emitted' = <<>>
  /\ written' = <<>>
  /\ UNCHANGED <<tState, sState, pty, spawned, running, timer, pending,
                 screen, lastScreen, history, twait, exec, closing, inMap,
                 mPending, calls, answered, managerVars, registryVars, activityVars, outputVars, formatVars, fingerprintVars>>

\* SemanticTerminal.start
Start ==
  /\ driver # "absent"
  /\ IF pty # 0
     THEN Reject("start", "driver", "already_started")
     ELSE /\ spawn
          /\ timer' = TRUE
          /\ Return("start", "driver", "none")
          /\ emitted' = <<>>
          /\ written' = <<>>
          /\ UNCHANGED <<driver, tState, sState, registry, checker, pending,
                         screen, lastScreen, history, twait, exec, closing,
                         inMap, mPending>>

\* SessionManager.create: the preset is resolved and passed as an option
\* the constructor does not read, the driver is started, the listeners are
\* added and the session is put in the map
create ==
  /\ driver = "absent"
  /\ driver' = "managed"
  /\ spawn
  /\ timer' = TRUE
  /\ inMap' = TRUE
  /\ Return("create", "manager", "none")
  /\ emitted' = <<>>
  /\ written' = <<>>
  /\ UNCHANGED <<tState, sState, registry, checker, pending, screen,
                 lastScreen, history, twait, exec, closing, mPending>>

\* SemanticTerminal.kill: stopStateCheck, pty.kill, cleanup
kill ==
  /\ driver # "absent"
  /\ timer' = FALSE
  /\ pty' = 0
  /\ Return("kill", "driver", "none")
  /\ emitted' = <<>>
  /\ written' = <<>>
  /\ UNCHANGED <<driver, tState, sState, spawned, running, registry, checker,
                 pending, screen, lastScreen, history, twait, exec, closing,
                 inMap, mPending>>

\* SemanticTerminal.close(exitCommand): stopStateCheck, then
\* PTYSession.close up to the point where it waits for exit or 3 s
close(withExit) ==
  /\ driver # "absent"
  /\ "driver" \notin closing
  /\ timer' = FALSE
  /\ emitted' = <<>>
  /\ UNCHANGED <<driver, tState, sState, pty, spawned, running, registry,
                 checker, pending, screen, lastScreen, history, twait, exec,
                 inMap, mPending>>
  /\ IF pty = 0
     THEN /\ Return("close", "driver", "none")
          /\ written' = <<>>
          /\ UNCHANGED closing
     ELSE IF withExit /\ writeError # "none"
     THEN /\ Return("close", "driver", writeError)
          /\ written' = <<>>
          /\ UNCHANGED closing
     ELSE /\ Return("close", "driver", "none")
          /\ closing' = closing \cup {"driver"}
          /\ written' = IF withExit THEN <<"exit\\r">> ELSE <<>>

\* SessionManager.destroy(id, force)
destroy(force) ==
  /\ "destroy" \notin closing
  /\ IF ~inMap
     THEN Reject("destroy", "manager", "not_found")
     ELSE /\ timer' = FALSE
          /\ Return("destroy", "manager", "none")
          /\ emitted' = <<>>
          /\ UNCHANGED <<driver, tState, sState, spawned, running, registry,
                         checker, pending, screen, lastScreen, history, twait,
                         exec, mPending>>
          /\ IF force \/ writeError # "none"
             THEN \* kill; or close returned at once (no pty); or close
                  \* threw and the catch block killed
                  /\ pty' = 0
                  /\ inMap' = FALSE
                  /\ written' = <<>>
                  /\ UNCHANGED closing
             ELSE /\ written' = <<"exit\\r">>
                  /\ closing' = closing \cup {"destroy"}
                  /\ UNCHANGED <<pty, inMap>>

\* SemanticTerminal.write / SessionManager.write, and interrupt (which
\* writes \x03)
write(via, op, data) ==
  /\ Callable(via)
  /\ IF ~Found(via) THEN Reject(op, via, "not_found")
     ELSE IF writeError # "none" THEN Reject(op, via, writeError)
     ELSE /\ written' = <<data>>
          /\ Return(op, via, "none")
          /\ emitted' = <<>>
          /\ UNCHANGED <<driver, tState, sState, pty, spawned, running, timer,
                         registry, checker, pending, screen, lastScreen,
                         history, twait, exec, closing, inMap, mPending>>

\* sendMessage with a fault: \r is written before the message
sendMessageReturnFirst(op, via, msg) ==
  /\ Len(history) < MaxHistory
  /\ history' = Append(history, msg)
  /\ IF writeError # "none"
     THEN /\ Return(op, via, writeError)
          /\ written' = <<>>
     ELSE /\ Return(op, via, "none")
          /\ written' = <<"\\r", msg>>

\* PTYSession.sendMessage: the message is pushed on the history, then
\* written, then \r is written
sendMessage(op, via, msg) ==
  /\ Len(history) < MaxHistory
  /\ history' = Append(history, msg)
  /\ IF writeError # "none"
     THEN /\ Return(op, via, writeError)
          /\ written' = <<>>
     ELSE /\ Return(op, via, "none")
          /\ written' = <<msg, "\\r">>

\* SemanticTerminal.send / SessionManager.send
send(via) ==
  /\ Callable(via)
  /\ IF ~Found(via) THEN Reject("send", via, "not_found")
     ELSE /\ sendMessage("send", via, "msg")
          /\ emitted' = <<>>
          /\ UNCHANGED <<driver, tState, sState, pty, spawned, running, timer,
                         registry, checker, pending, screen, lastScreen, twait,
                         exec, closing, inMap, mPending>>

\* exec_ with a fault: the state guard is missing
exec_Unguarded(via) ==
  /\ Callable(via)
  /\ IF ~Found(via) THEN Reject("exec", via, "not_found")
     ELSE /\ exec.pc \notin {"leave", "back"}
          /\ sendMessage("exec", via, "cmd")
          /\ exec' = IF writeError # "none" THEN exec
                     ELSE [pc |-> "leave", result |-> "none",
                           armed |-> TRUE, backSeen |-> FALSE]
          /\ emitted' = <<>>
          /\ UNCHANGED <<driver, tState, sState, pty, spawned, running, timer,
                         registry, checker, pending, screen, lastScreen, twait,
                         closing, inMap, mPending>>

\* SemanticTerminal.exec / SessionManager.exec up to its first await
exec_(via) ==
  /\ Callable(via)
  /\ IF ~Found(via) THEN Reject("exec", via, "not_found")
     ELSE IF tState # "idle" THEN Reject("exec", via, "state")
     ELSE /\ exec.pc \notin {"leave", "back"}
          /\ sendMessage("exec", via, "cmd")
          /\ exec' = IF writeError # "none" THEN exec
                     ELSE [pc |-> "leave", result |-> "none",
                           armed |-> TRUE, backSeen |-> FALSE]
          /\ emitted' = <<>>
          /\ UNCHANGED <<driver, tState, sState, pty, spawned, running, timer,
                         registry, checker, pending, screen, lastScreen, twait,
                         closing, inMap, mPending>>

\* SemanticTerminal.exec / SessionManager.exec called while an earlier exec
\* of the session is suspended in one of its waits, up to its first await.
\* The waits of this call settle its own promise only; the record exec
\* stays the one of the earlier call.
execAgain(via) ==
  /\ Callable(via)
  /\ exec.pc \in {"leave", "back"}
  /\ IF ~Found(via) THEN Reject("exec", via, "not_found")
     ELSE IF tState # "idle" THEN Reject("exec", via, "state")
     ELSE /\ sendMessage("exec", via, "cmd")
          /\ emitted' = <<>>
          /\ UNCHANGED <<driver, tState, sState, pty, spawned, running, timer,
                         registry, checker, pending, screen, lastScreen, twait,
                         exec, closing, inMap, mPending>>

\* confirm with a fault: the response is formatted by the first confirm
\* parser of the registry as it is now, not by the one remembered
confirmByRegistry(action) ==
  /\ driver # "absent"
  /\ IF pending = NoConfirm THEN Reject("confirm", "driver", "no_pending")
     ELSE IF writeError # "none" THEN Reject("confirm", "driver", writeError)
     ELSE /\ written' =
               <<formatResponse(IF registry = "shell" THEN "yesno-confirm"
                                ELSE "claude-code-confirm",
                                pending.info, action)>>
          /\ pending' = NoConfirm
          /\ Return("confirm", "driver", "none")
          /\ emitted' = <<>>
          /\ UNCHANGED <<driver, tState, sState, pty, spawned, running, timer,
                         registry, checker, screen, lastScreen, history, twait,
                         exec, closing, inMap, mPending>>

\* confirm with a fault: the pending confirmation is not cleared
confirmKeepsPending(action) ==
  /\ driver # "absent"
  /\ IF pending = NoConfirm THEN Reject("confirm", "driver", "no_pending")
     ELSE IF writeError # "none" THEN Reject("confirm", "driver", writeError)
     ELSE /\ written' = <<formatResponse(pending.parser, pending.info, action)>>
          /\ Return("confirm", "driver", "none")
          /\ emitted' = <<>>
          /\ UNCHANGED <<driver, tState, sState, pty, spawned, running, timer,
                         registry, checker, screen, lastScreen, history, twait,
                         exec, closing, inMap, mPending, pending>>

\* SemanticTerminal.confirm as a public operation
confirm(action) ==
  /\ driver # "absent"
  /\ IF pending = NoConfirm THEN Reject("confirm", "driver", "no_pending")
     ELSE IF writeError # "none" THEN Reject("confirm", "driver", writeError)
     ELSE /\ written' = <<formatResponse(pending.parser, pending.info, action)>>
          /\ pending' = NoConfirm
          /\ Return("confirm", "driver", "none")
          /\ emitted' = <<>>
          /\ UNCHANGED <<driver, tState, sState, pty, spawned, running, timer,
                         registry, checker, screen, lastScreen, history, twait,
                         exec, closing, inMap, mPending>>

\* SessionManager.respondToConfirm
respondToConfirm(action) ==
  IF ~inMap THEN Reject("respond", "manager", "not_found")
  ELSE IF mPending = "none" THEN Reject("respond", "manager", "no_pending")
  ELSE IF pending = NoConfirm THEN Reject("respond", "manager", "no_pending")
  ELSE IF writeError # "none" THEN Reject("respond", "manager", writeError)
  ELSE /\ written' = <<formatResponse(pending.parser, pending.info, action)>>
       /\ pending' = NoConfirm
       /\ mPending' = "none"
       /\ Return("respond", "manager", "none")
       /\ emitted' = <<>>
       /\ UNCHANGED <<driver, tState, sState, pty, spawned, running, timer,
                      registry, checker, screen, lastScreen, history, twait,
                      exec, closing, inMap>>

\* SemanticTerminal.loadPreset: clear, then register the preset's parsers
loadPreset(p) ==
  /\ driver # "absent"
  /\ registry' = p
  /\ Return("load_preset", "driver", "none")
  /\ emitted' = <<>>
  /\ written' = <<>>
  /\ UNCHANGED <<driver, tState, sState, pty, spawned, running, timer,
                 checker, pending, screen, lastScreen, history, twait, exec,
                 closing, inMap, mPending>>

\* SemanticTerminal.setPermissionChecker
setPermissionChecker(c) ==
  /\ driver # "absent"
  /\ checker' = c
  /\ Return("set_checker", "driver", "none")
  /\ emitted' = <<>>
  /\ written' = <<>>
  /\ UNCHANGED <<driver, tState, sState, pty, spawned, running, timer,
                 registry, pending, screen, lastScreen, history, twait, exec,
                 closing, inMap, mPending>>

\* SemanticTerminal.waitForState / SessionManager.waitForState
waitForState(via, target) ==
  /\ Callable(via)
  /\ twait.status # "pending"
  /\ IF ~Found(via) THEN Reject("wait", via, "not_found")
     ELSE /\ twait' = IF tState = target
                       THEN [NoWait EXCEPT !.status = "resolved"]
                       ELSE [status |-> "pending", target |-> target,
                             exitSeen |-> FALSE]
          /\ Return("wait", via, "none")
          /\ emitted' = <<>>
          /\ written' = <<>>
          /\ UNCHANGED <<driver, tState, sState, pty, spawned, running, timer,
                         registry, checker, pending, screen, lastScreen,
                         history, exec, closing, inMap, mPending>>

(* --------------------------- specification ---------------------------- *)

\* what the callers and the child process of Spec choose from
Shown == {s \in Screens : s.kind \notin {"dlgB", "dlgDots"}}
Loaded == {"claude-code"}
Decided == {"allow", "confirm"}
Waited == {"idle"}

Next ==
  \/ \E reg \in Loaded \cup {"none"}, chk \in Decided \cup {"none"} :
       New(reg, chk)
  \/ Start
  \/ create
  \/ kill
  \/ \E withExit \in BOOLEAN : close(withExit)
  \/ \E k \in {"driver", "destroy"} : closeTimeout(k)
  \/ \E force \in BOOLEAN : destroy(force)
  \/ \E via \in Via : write(via, "write", "raw")
  \/ \E via \in Via : write(via, "interrupt", "\\x03")
  \/ \E via \in Via : send(via)
  \/ \E via \in Via : exec_(via)
  \/ execTimeout
  \/ \E a \in {"confirm", "deny"} : confirm(a)
  \/ \E a \in {"confirm", "deny"} : respondToConfirm(a)
  \/ \E p \in Loaded : loadPreset(p)
  \/ \E c \in Decided : setPermissionChecker(c)
  \/ \E via \in Via, t \in Waited : waitForState(via, t)
  \/ waitTimeout
  \/ \E s \in Shown : ScreenChange(s)
  \/ checkState
  \/ \E c \in 1..MaxSpawns : ChildExit(c)

Spec == Init /\ [][Next]_vars

\* A driver used directly, with every bundled preset, every decision of a
\* permission checker and every class of screen: the tick and confirm
NextTick ==
  \/ \E reg \in Presets \cup {"none"}, chk \in Decisions \cup {"none"} :
       New(reg, chk)
  \/ Start
  \/ kill
  \/ \E a \in {"confirm", "deny"} : confirm(a)
  \/ \E p \in Presets : loadPreset(p)
  \/ \E c \in Decisions : setPermissionChecker(c)
  \/ \E s \in Screens : ScreenChange(s)
  \/ checkState
  \/ \E c \in 1..MaxSpawns : ChildExit(c)

SpecTick == Init /\ [][NextTick]_vars

\* A session the manager created, with every bundled preset loaded into its
\* driver afterwards, every decision of a permission checker and every
\* class of screen: the tick, confirm and respondToConfirm
NextManaged ==
  \/ create
  \/ \E force \in BOOLEAN : destroy(force)
  \/ closeTimeout("destroy")
  \/ \E a \in {"confirm", "deny"} : confirm(a)
  \/ \E a \in {"confirm", "deny"} : respondToConfirm(a)
  \/ \E p \in Presets : loadPreset(p)
  \/ \E c \in Decisions : setPermissionChecker(c)
  \/ \E s \in Screens : ScreenChange(s)
  \/ checkState
  \/ \E c \in 1..MaxSpawns : ChildExit(c)

SpecManaged == Init /\ [][NextManaged]_vars

\* the same, with the 3 s timer of a close that waits firing when due
SpecManagedFair == SpecManaged /\ WF_vars(closeTimeout("destroy"))

\* A session, used directly or through the manager, whose callers do not
\* wait for one exec to return before they call the next
NextOverlap ==
  \/ New("shell", "none")
  \/ Start
  \/ create
  \/ \E p \in Loaded : loadPreset(p)
  \/ \E via \in Via : exec_(via)
  \/ \E via \in Via : execAgain(via)
  \/ execTimeout
  \/ \E s \in Shown : ScreenChange(s)
  \/ checkState
  \/ \E c \in 1..MaxSpawns : ChildExit(c)

SpecOverlap == Init /\ [][NextOverlap]_vars

\* the tool dialog still on the screen, with a line of it drawn again (the
\* spinner above it, the echo of a key): other text, the same dialog
Redrawn == [kind |-> "dlgA", v |-> 1]

\* A driver used directly whose child draws its screen again while a
\* dialog is shown
NextRedraw ==
  \/ \E reg \in Presets, chk \in Decisions : New(reg, chk)
  \/ Start
  \/ kill
  \/ \E s \in Screens \cup {Redrawn} : ScreenChange(s)
  \/ checkState
  \/ \E c \in 1..MaxSpawns : ChildExit(c)

SpecRedraw == Init /\ [][NextRedraw]_vars

(* ------------------- the manager's map of sessions ------------------- *)

\* The sessions of one SessionManager, by id. A session is
\*   unused    not asked for yet
\*   starting  its create is suspended at "await terminal.start()"
\*   held      in the map
\*   closing   in the map, its destroy suspended at "await terminal.close"
\*   gone      deleted from the map (or its create failed)

\* ids the map holds: this.sessions.size counts them
InManagerMap == {i \in Ids : sessions[i] \in {"held", "closing"}}

\* No create is between its quota check and its sessions.set: the promise of
\* terminal.start is resolved when it is awaited, so a suspended create
\* resumes before any timer or child event is delivered; only calls made
\* in the same turn of the event loop run in between.
NoCreateSuspended == \A i \in Ids : sessions[i] # "starting"

\* sessions.delete(id): the records of ids leave the map, and their
\* lastActivity with them
Deleted(ids) == [i \in Ids |-> IF i \in ids THEN 0 ELSE lastActivity[i]]

\* SessionManager.create up to "await terminal.start()": the quota check,
\* then the id, the driver and the spawn
createCall(i) ==
  /\ sessions[i] = "unused"
  /\ \A j \in Ids : j < i => sessions[j] # "unused"
  /\ IF Cardinality(InManagerMap) >= maxSessions
     THEN /\ quota' = TRUE
          /\ UNCHANGED sessions
     ELSE /\ quota' = FALSE
          /\ sessions' = [sessions EXCEPT ![i] = "starting"]
  /\ UNCHANGED <<sweepOn, dAll, driverVars, registryVars, activityVars, outputVars, formatVars, fingerprintVars>>

\* SessionManager.create from the await on: the listeners are added and the
\* session is put in the map
createResume(i) ==
  /\ sessions[i] = "starting"
  /\ sessions' = [sessions EXCEPT ![i] = "held"]
  /\ lastActivity' = [lastActivity EXCEPT ![i] = now]
  /\ UNCHANGED <<quota, sweepOn, dAll, driverVars, registryVars, now, mLastActivity, swept, outputVars, formatVars, fingerprintVars>>

\* SessionManager.destroy(id, force) up to its await: a forced destroy kills
\* and deletes, the other one writes exit and waits for the close
destroyCall(i, force) ==
  /\ sessions[i] = "held"
  /\ sessions' = [sessions EXCEPT ![i] = IF force THEN "gone" ELSE "closing"]
  /\ lastActivity' = IF force THEN Deleted({i}) ELSE lastActivity
  /\ UNCHANGED <<quota, sweepOn, dAll, driverVars, registryVars, now, mLastActivity, swept, outputVars, formatVars, fingerprintVars>>

\* the close a destroy waits for resolves after 3 s without an exit: the
\* child is killed and the destroy deletes the session
destroyResume(i) ==
  /\ NoCreateSuspended
  /\ sessions[i] = "closing"
  /\ sessions' = [sessions EXCEPT ![i] = "gone"]
  /\ lastActivity' = Deleted({i})
  /\ UNCHANGED <<quota, sweepOn, dAll, driverVars, registryVars, now, mLastActivity, swept, outputVars, formatVars, fingerprintVars>>

\* SessionManager.cleanupIdleSessions, run every minute: a forced destroy of
\* each session whose last activity is older than idleTimeout (idle)
cleanupIdleSessions(idle) ==
  /\ sweepOn
  /\ NoCreateSuspended
  /\ idle # {}
  /\ idle \subseteq InManagerMap
  /\ sessions' = [i \in Ids |-> IF i \in idle THEN "gone" ELSE sessions[i]]
  /\ swept' = idle
  /\ lastActivity' = Deleted(idle)
  /\ UNCHANGED <<quota, sweepOn, dAll, driverVars, registryVars, now, mLastActivity,
                 outputVars, formatVars, fingerprintVars>>

\* the child of session i exits: the manager's exit listener deletes the
\* session; a destroy that waited for the close deletes it again
sessionExit(i) ==
  /\ NoCreateSuspended
  /\ i \in InManagerMap
  /\ sessions' = [sessions EXCEPT ![i] = "gone"]
  /\ lastActivity' = Deleted({i})
  /\ UNCHANGED <<quota, sweepOn, dAll, driverVars, registryVars, now, mLastActivity, swept, outputVars, formatVars, fingerprintVars>>

\* SessionManager.destroyAll up to "await Promise.all": destroy(id, true) is
\* called on every key of the map, and each of these kills and deletes its
\* session before it returns its promise
destroyAllCall ==
  /\ dAll # "waiting"
  /\ dAll' = "waiting"
  /\ sessions' = [i \in Ids |-> IF i \in InManagerMap THEN "gone"
                                 ELSE sessions[i]]
  /\ lastActivity' = Deleted(InManagerMap)
  /\ UNCHANGED <<quota, sweepOn, driverVars, registryVars, now, mLastActivity,
                 swept, outputVars, formatVars, fingerprintVars>>

\* SessionManager.destroyAll from the await on: clearInterval, and the
\* promise the caller holds resolves. A create called before the destroyAll
\* resumes earlier than this, one called after it may resume later.
destroyAllResume ==
  /\ dAll = "waiting"
  /\ dAll' = "done"
  /\ sweepOn' = FALSE
  /\ UNCHANGED <<sessions, quota, driverVars, registryVars, activityVars,
                 outputVars, formatVars, fingerprintVars>>

NextMap ==
  \/ \E i \in Ids : createCall(i)
  \/ \E i \in Ids : createResume(i)
  \/ \E i \in Ids, force \in BOOLEAN : destroyCall(i, force)
  \/ \E i \in Ids : destroyResume(i)
  \/ \E idle \in SUBSET Ids : cleanupIdleSessions(idle)
  \/ \E i \in Ids : sessionExit(i)

\* one manager, its callers and the children of its sessions
SpecMap == Init /\ [][NextMap]_vars

\* the same manager when it is shut down
NextDestroyAll ==
  \/ \E i \in Ids : createCall(i)
  \/ \E i \in Ids : createResume(i)
  \/ \E i \in Ids, force \in BOOLEAN : destroyCall(i, force)
  \/ \E i \in Ids : destroyResume(i)
  \/ \E idle \in SUBSET Ids : cleanupIdleSessions(idle)
  \/ \E i \in Ids : sessionExit(i)
  \/ destroyAllCall
  \/ destroyAllResume

SpecDestroyAll == Init /\ [][NextDestroyAll]_vars

(* --------------------------- the idle sweep --------------------------- *)

\* SessionManagerOptions.idleTimeout, the unit of the model's clock
idleTimeout == 1

\* time passes
Advance ==
  /\ now < MaxTime
  /\ now' = now + 1
  /\ last' = NoOp
  /\ emitted' = <<>>
  /\ written' = <<>>
  /\ UNCHANGED <<driver, tState, sState, pty, spawned, running, timer,
                 registry, checker, pending, screen, lastScreen, history,
                 twait, exec, closing, inMap, mPending, calls, answered,
                 managerVars, registryVars, lastActivity, mLastActivity, swept, outputVars, formatVars, fingerprintVars>>

\* SessionManager.exec, send, write, interrupt or respondToConfirm on the
\* session i of the map: the call sets its lastActivity
managerCall(i) ==
  /\ i \in InManagerMap
  /\ lastActivity' = [lastActivity EXCEPT ![i] = now]
  /\ UNCHANGED <<driverVars, managerVars, registryVars, now, mLastActivity,
                 swept, outputVars, formatVars, fingerprintVars>>

\* isIdle with a fault: a session as old as the timeout counts as idle
isIdleOrEqual(i) == now - lastActivity[i] >= idleTimeout

\* now - session.lastActivity > this.options.idleTimeout
isIdle(i) == now - lastActivity[i] > idleTimeout

\* the callback of the cleanup interval: cleanupIdleSessions walks the map
\* and calls destroy(id, true) on each idle session, which kills and deletes
\* it before the loop goes on
cleanupTimer == cleanupIdleSessions({i \in InManagerMap : isIdle(i)})

NextSweep ==
  \/ \E i \in Ids : createCall(i)
  \/ \E i \in Ids : createResume(i)
  \/ \E i \in Ids, force \in BOOLEAN : destroyCall(i, force)
  \/ \E i \in Ids : destroyResume(i)
  \/ \E i \in Ids : managerCall(i)
  \/ \E i \in Ids : sessionExit(i)
  \/ Advance
  \/ cleanupTimer

\* one manager, its callers, the clock and the cleanup interval
SpecSweep == Init /\ [][NextSweep]_vars

\* a session the manager created, the calls routed through the manager,
\* the tick of its driver and the clock
NextActivity ==
  \/ create
  \/ \E force \in BOOLEAN : destroy(force)
  \/ closeTimeout("destroy")
  \/ write("manager", "write", "raw")
  \/ write("manager", "interrupt", "\\x03")
  \/ send("manager")
  \/ exec_("manager")
  \/ execTimeout
  \/ \E a \in {"confirm", "deny"} : respondToConfirm(a)
  \/ \E p \in Loaded : loadPreset(p)
  \/ \E s \in Shown : ScreenChange(s)
  \/ checkState
  \/ \E c \in 1..MaxSpawns : ChildExit(c)
  \/ Advance

SpecActivity == Init /\ [][NextActivity]_vars

(* ------------------------- the manager's exec ------------------------- *)

\* classes of output text
Texts == {"text", "error: x", "done"}

\* determineSeverity: the severity of the first pattern the text matches
determineSeverity(text) ==
  CASE text = "error: x" -> "error"
    [] text = "done" -> "success"
    [] OTHER -> "info"

\* what SemanticTerminal.exec resolves with: the record of the output
\* parser that won the dispatch, or the new screen content as a string
DriverResults ==
  [kind : {"string"}, type : {"-"}, raw : Texts]
    \cup [kind : {"parsed"}, type : {"json", "table"}, raw : Texts]

\* options.parse_output of SessionManager.exec
ParseOutputOption == {"absent", "true", "false"}

Commands == {"ls", "make"}

\* createEnhancedOutput: the output with its severity and the metadata
createEnhancedOutput(output, options) ==
  [kind |-> "enhanced", type |-> output.type, raw |-> output.raw,
   severity |-> determineSeverity(output.raw), metadata |-> options]

\* SessionManager.exec from the result of the driver on
execResult(result, parse_output, command, duration) ==
  LET options == [session_id |-> "id", command |-> command,
                  duration_ms |-> duration]
  IN IF result.kind = "string"
     THEN IF parse_output = "false"
          THEN [kind |-> "raw", type |-> "-", raw |-> result.raw,
                severity |-> "-", metadata |-> "-"]
          ELSE createEnhancedOutput(
                 [type |-> "text", raw |-> result.raw], options)
     ELSE createEnhancedOutput(result, options)

\* a SessionManager.exec returns: the driver resolved with result after
\* duration units of time
managerExec ==
  \E result \in DriverResults, po \in ParseOutputOption,
     command \in Commands, duration \in 0..MaxTime :
    /\ execOut' = [result |-> result, parse_output |-> po,
                   command |-> command, duration |-> duration,
                   returned |-> execResult(result, po, command, duration)]
    /\ UNCHANGED <<driverVars, managerVars, registryVars, activityVars,
                   formatVars, fingerprintVars>>

NextExec == managerExec

\* the exec calls of a manager that return
SpecExec == Init /\ [][NextExec]_vars

(* --------------------- the registry's collections --------------------- *)

\* parsers of a caller whose meta has no priority
NoPriority == {"plain-state", "plain-confirm"}

\* meta.priority ?? 0 of the bundled parsers and of parsers of a caller
priority(n) ==
  CASE n = "claude-code-state" -> 100
    [] n = "docker-state" -> 50
    [] n = "shell-state" -> 10
    [] n = "claude-code-status" -> 95
    [] n = "claude-code-tool" -> 92
    [] n = "claude-code-content" -> 90
    [] n = "claude-code-title" -> 85
    [] n = "json-output" -> 80
    [] n = "diff-output" -> 60
    [] n = "table-output" -> 50
    [] n = "claude-code-confirm" -> 100
    [] n = "yesno-confirm" -> 10
    [] n = "my-tool-state" -> 50
    [] n = "my-format" -> 50
    [] n \in NoPriority -> 0

PresetNames == {"shell", "claude-code", "docker"}

\* the parser arrays of the three presets, in the order they are written
presetParsers(p) ==
  CASE p = "shell" ->
         [state |-> <<"shell-state">>,
          output |-> <<"json-output", "table-output", "diff-output">>,
          confirm |-> <<"yesno-confirm">>]
    [] p = "claude-code" ->
         [state |-> <<"claude-code-state", "shell-state">>,
          output |-> <<"claude-code-status", "claude-code-tool",
                       "claude-code-content", "claude-code-title",
                       "json-output", "table-output", "diff-output">>,
          confirm |-> <<"claude-code-confirm", "yesno-confirm">>]
    [] p = "docker" ->
         [state |-> <<"docker-state", "shell-state">>,
          output |-> <<"json-output", "table-output">>,
          confirm |-> <<"yesno-confirm">>]

\* parsers a caller registers one by one
Singles ==
  [state |-> {"claude-code-state", "docker-state", "shell-state"},
   output |-> {"json-output", "table-output"},
   confirm |-> {"claude-code-confirm", "yesno-confirm"}]

Kinds == {"state", "output", "confirm"}

\* insertByPriority with a fault: x goes in front of the entries of its
\* priority
insertBeforeEqual(s, x) ==
  LET k == Cardinality({i \in DOMAIN s : priority(s[i]) > priority(x)})
  IN SubSeq(s, 1, k) \o <<x>> \o SubSeq(s, k + 1, Len(s))

\* x put into list s, which is in descending priority order, behind the
\* entries of its priority or a higher one
insertByPriority(s, x) ==
  LET k == Cardinality({i \in DOMAIN s : priority(s[i]) >= priority(x)})
  IN SubSeq(s, 1, k) \o <<x>> \o SubSeq(s, k + 1, Len(s))

\* sortByPriority with a fault: the comparison is the other way round
RECURSIVE sortAscending(_)
sortAscending(s) ==
  IF s = <<>> THEN <<>>
  ELSE LET x == s[Len(s)]
           r == sortAscending(SubSeq(s, 1, Len(s) - 1))
           k == Cardinality({i \in DOMAIN r : priority(r[i]) <= priority(x)})
       IN SubSeq(r, 1, k) \o <<x>> \o SubSeq(r, k + 1, Len(r))

\* ParserRegistry.sortByPriority: Array.prototype.sort (stable) with the
\* comparison b.priority - a.priority
RECURSIVE sortByPriority(_)
sortByPriority(s) ==
  IF s = <<>> THEN <<>>
  ELSE insertByPriority(sortByPriority(SubSeq(s, 1, Len(s) - 1)), s[Len(s)])

\* one list after ParserRegistry.unregister(name): the filter
unregisterFrom(list, name) == SelectSeq(list, LAMBDA p : p # name)

\* ParserRegistry.clear, as a value
clear == [state |-> <<>>, output |-> <<>>, confirm |-> <<>>]

\* ParserRegistry.registerStateParsers / registerOutputParsers /
\* registerConfirmParsers on registry r: push, then sort
registerParsers(r, kind, ps) ==
  [r EXCEPT ![kind] = sortByPriority(r[kind] \o ps)]

\* ParserRegistry.registerStateParser / registerOutputParser /
\* registerConfirmParser, called through getRegistry()
registerParser(kind, n) ==
  /\ Len(parsers[kind]) < MaxSingles
  /\ parsers' = registerParsers(parsers, kind, <<n>>)
  /\ order' = [order EXCEPT ![kind] = Append(@, n)]
  /\ regLast' = [op |-> "register", arg |-> n]
  /\ found' = NoFound
  /\ UNCHANGED <<driverVars, managerVars, activityVars, outputVars, formatVars, fingerprintVars>>

\* SemanticTerminal.loadPreset on the lists: clear, then the three
\* registrations, in one synchronous call
registryLoadPreset(p) ==
  /\ parsers' =
       registerParsers(
         registerParsers(
           registerParsers(clear, "state", presetParsers(p).state),
           "output", presetParsers(p).output),
         "confirm", presetParsers(p).confirm)
  /\ order' = [kind \in Kinds |-> presetParsers(p)[kind]]
  /\ regLast' = [op |-> "load", arg |-> p]
  /\ found' = NoFound
  /\ UNCHANGED <<driverVars, managerVars, activityVars, outputVars, formatVars, fingerprintVars>>

\* a tick dispatches over the registry: it reads the three lists
dispatch ==
  /\ regLast' = [op |-> "dispatch", arg |-> regLast.arg]
  /\ UNCHANGED <<parsers, found, order, driverVars, managerVars, activityVars, outputVars, formatVars, fingerprintVars>>

\* parsers of a caller, beside the bundled ones
Custom ==
  [state |-> {"my-tool-state", "plain-state"},
   output |-> {"my-format"},
   confirm |-> {"plain-confirm"}]

\* arrays a caller registers in one call
Arrays ==
  [state |-> {<<"plain-state", "docker-state", "my-tool-state">>},
   output |-> {<<"table-output", "my-format">>},
   confirm |-> {<<"plain-confirm", "yesno-confirm">>}]

\* ParserRegistry.registerStateParsers / registerOutputParsers /
\* registerConfirmParsers, called through getRegistry()
registerMany(kind, ps) ==
  /\ Len(parsers[kind]) < MaxSingles
  /\ parsers' = registerParsers(parsers, kind, ps)
  /\ order' = [order EXCEPT ![kind] = @ \o ps]
  /\ regLast' = [op |-> "registerMany", arg |-> kind]
  /\ found' = NoFound
  /\ UNCHANGED <<driverVars, managerVars, activityVars, outputVars, formatVars, fingerprintVars>>

\* ParserRegistry.unregister(name): the three lists are filtered
unregister(name) ==
  /\ parsers' = [kind \in Kinds |-> unregisterFrom(parsers[kind], name)]
  /\ order' = [kind \in Kinds |-> unregisterFrom(order[kind], name)]
  /\ regLast' = [op |-> "unregister", arg |-> name]
  /\ found' = NoFound
  /\ UNCHANGED <<driverVars, managerVars, activityVars, outputVars, formatVars, fingerprintVars>>

\* ParserRegistry.clear(), called through getRegistry()
registryClear ==
  /\ parsers' = clear
  /\ order' = clear
  /\ regLast' = [op |-> "clear", arg |-> "none"]
  /\ found' = NoFound
  /\ UNCHANGED <<driverVars, managerVars, activityVars, outputVars, formatVars, fingerprintVars>>

NextRegistry ==
  \/ \E kind \in Kinds : \E n \in Singles[kind] : registerParser(kind, n)
  \/ \E p \in PresetNames : registryLoadPreset(p)
  \/ dispatch

\* the names a caller unregisters
Unregistered == {"docker-state", "my-tool-state", "yesno-confirm"}

NextSorted ==
  \/ \E n \in Singles.state \cup Custom.state : registerParser("state", n)
  \/ \E kind \in Kinds : \E ps \in Arrays[kind] : registerMany(kind, ps)
  \/ \E n \in Unregistered : unregister(n)
  \/ registryClear
  \/ \E p \in PresetNames : registryLoadPreset(p)

\* one registry, its callers and the tick of its driver
SpecRegistry == Init /\ [][NextRegistry]_vars

\* one registry and callers that register, unregister, clear and load
SpecSorted == Init /\ [][NextSorted]_vars

(* -------------------------- registry dispatch ------------------------- *)

\* confidences of results, in tenths
Confidences == {0, 5, 9}

\* what one parser does with one context
Out(kind, c) == [kind |-> kind, confidence |-> c]

\* StateParser.detectState: null, an exception, or a result
StateOutcomes ==
  {Out("null", 0), Out("throw", 0)} \cup {Out("result", c) : c \in Confidences}

\* OutputParser: canParse false, canParse throws, parse null, parse throws,
\* or a record
OutputOutcomes ==
  {Out("cannot", 0), Out("throwCanParse", 0), Out("null", 0), Out("throw", 0)}
    \cup {Out("result", c) : c \in Confidences}

\* ConfirmParser.detectConfirm: null, an exception, or a ConfirmInfo
ConfirmOutcomes == {Out("null", 0), Out("throw", 0), Out("result", 0)}

\* the parsers whose behaviour on the context varies; any other parser
\* finds nothing in it
Probed ==
  [state |-> {"claude-code-state", "docker-state", "shell-state"},
   output |-> {"json-output", "table-output"},
   confirm |-> {"claude-code-confirm", "yesno-confirm"}]

outcome(beh, n) == IF n \in DOMAIN beh THEN beh[n] ELSE Out("null", 0)

\* try { ... } catch with an exception that is not caught
tryCallUncaught(o) ==
  IF o.kind \in {"throw", "throwCanParse"} THEN Out("raise", 0) ELSE o

\* try { ... } catch { }: a parser that throws is skipped
tryCall(o) ==
  IF o.kind \in {"throw", "throwCanParse"} THEN Out("null", 0) ELSE o

\* the exception of a parser leaves the dispatch
Raised == [idx |-> 0, parser |-> "raised", confidence |-> 0]

\* the comparison with a fault: an equal confidence replaces the best
betterOrEqual(r, best) == r.confidence >= best.confidence

\* result.confidence > bestConfidence
better(r, best) == r.confidence > best.confidence

\* the loop of detectState and parseOutput from entry i on
RECURSIVE bestFrom(_, _, _, _)
bestFrom(list, beh, i, best) ==
  IF i > Len(list) THEN best
  ELSE LET r == tryCall(outcome(beh, list[i]))
       IN IF r.kind = "raise" THEN Raised
          ELSE bestFrom(list, beh, i + 1,
                 IF r.kind = "result" /\ better(r, best)
                 THEN [idx |-> i, parser |-> list[i],
                       confidence |-> r.confidence]
                 ELSE best)

\* ParserRegistry.detectState
registryDetectState(list, beh) == bestFrom(list, beh, 1, NoResult)

\* ParserRegistry.parseOutput
registryParseOutput(list, beh) == bestFrom(list, beh, 1, NoResult)

\* the loop of detectConfirm with a fault: the last detection is kept
RECURSIVE detectConfirmLast(_, _, _)
detectConfirmLast(list, beh, i) ==
  IF i > Len(list) THEN NoResult
  ELSE LET r == tryCall(outcome(beh, list[i]))
           rest == detectConfirmLast(list, beh, i + 1)
       IN IF r.kind = "raise" THEN Raised
          ELSE IF rest # NoResult THEN rest
          ELSE IF r.kind = "result"
               THEN [idx |-> i, parser |-> list[i], confidence |-> 0]
               ELSE NoResult

\* the loop of detectConfirm from entry i on: the first detection returns
RECURSIVE detectConfirmFrom(_, _, _)
detectConfirmFrom(list, beh, i) ==
  IF i > Len(list) THEN NoResult
  ELSE LET r == tryCall(outcome(beh, list[i]))
       IN IF r.kind = "raise" THEN Raised
          ELSE IF r.kind = "result"
               THEN [idx |-> i, parser |-> list[i], confidence |-> 0]
               ELSE detectConfirmFrom(list, beh, i + 1)

\* ParserRegistry.detectConfirm
registryDetectConfirm(list, beh) == detectConfirmFrom(list, beh, 1)

\* the dispatch of a kind over a list
dispatchOver(kind, list, beh) ==
  CASE kind = "state" -> registryDetectState(list, beh)
    [] kind = "output" -> registryParseOutput(list, beh)
    [] kind = "confirm" -> registryDetectConfirm(list, beh)

\* a dispatch over one of the lists, the parsers behaving as beh says
Dispatched(kind, beh, result) ==
  /\ found' = [kind |-> kind, beh |-> beh, result |-> result]
  /\ UNCHANGED <<parsers, regLast, order, driverVars, managerVars,
               activityVars, outputVars, formatVars, fingerprintVars>>

detectStateCall ==
  \E beh \in [Probed.state -> StateOutcomes] :
    Dispatched("state", beh, registryDetectState(parsers.state, beh))

parseOutputCall ==
  \E beh \in [Probed.output -> OutputOutcomes] :
    Dispatched("output", beh, registryParseOutput(parsers.output, beh))

detectConfirmCall ==
  \E beh \in [Probed.confirm -> ConfirmOutcomes] :
    Dispatched("confirm", beh, registryDetectConfirm(parsers.confirm, beh))

NextDispatch ==
  \/ \E n \in Probed.state : registerParser("state", n)
  \/ \E p \in PresetNames : registryLoadPreset(p)
  \/ detectStateCall
  \/ parseOutputCall
  \/ detectConfirmCall

\* one registry, its callers and the dispatches of a driver over it
SpecDispatch == Init /\ [][NextDispatch]_vars

(* ----------------------- formatting a response ------------------------ *)

\* The value of formatResponse is modelled as the sequence of its keys:
\* "\\r" is Enter, Down is the escape sequence ESC [ B of the down arrow,
\* every other element is the text typed.
Down == "ESC[B"

\* 'x'.repeat(n)
Repeat(x, n) == [k \in 1..n |-> x]

\* ConfirmInfo.type
InfoTypes == {"yesno", "options", "input"}

\* ConfirmResponse.option: left out, a number or a string of digits
Options == {NoOption} \cup [kind : {"number", "string"}, n : 1..MaxOption]

\* ConfirmResponse.value: left out, a boolean or a text
Values == {"absent", "true", "false", "text"}

\* ConfirmResponse
ConfirmResponses ==
  [action : {"confirm", "deny"}, option : {NoOption}, value : {"absent"}]
    \cup [action : {"select"}, option : Options, value : {"absent"}]
    \cup [action : {"input"}, option : {NoOption}, value : Values]

\* `${response.option}` and `${response.value}`
optionText(o) == IF o.kind = "absent" THEN "undefined" ELSE ToString(o.n)
valueText(v) == IF v = "absent" THEN "undefined" ELSE v

\* YesNoConfirmParser.formatResponse
yesNoFormatResponse(type, r) ==
  CASE r.action = "confirm" -> <<"y", "\\r">>
    [] r.action = "deny" -> <<"n", "\\r">>
    [] r.action = "input" ->
         IF r.value = "true" THEN <<"y", "\\r">>
         ELSE IF r.value = "false" THEN <<"n", "\\r">>
         ELSE <<valueText(r.value), "\\r">>
    [] OTHER -> <<"\\r">>

\* ClaudeCodeConfirmParser.formatResponse of the core package: the number
\* of the option is typed
claudeCodeFormatResponse(type, r) ==
  CASE r.action = "confirm" ->
         IF type = "options" THEN <<"1", "\\r">> ELSE <<"y", "\\r">>
    [] r.action = "deny" ->
         IF type = "options" THEN <<"3", "\\r">> ELSE <<"n", "\\r">>
    [] r.action = "select" -> <<optionText(r.option), "\\r">>
    [] r.action = "input" -> <<valueText(r.value), "\\r">>
    [] OTHER -> <<"\\r">>

\* ClaudeCodeConfirmParser.formatResponse of the second copy of the parser:
\* the selection is moved with the down arrow
claudeCodeFormatResponseKeys(type, r) ==
  CASE r.action = "confirm" -> <<"\\r">>
    [] r.action = "deny" ->
         IF type = "options" THEN <<Down, Down, "\\r">> ELSE <<"n", "\\r">>
    [] r.action = "select" ->
         IF r.option.kind = "number" /\ r.option.n > 1
         THEN Repeat(Down, r.option.n - 1) \o <<"\\r">>
         ELSE <<"\\r">>
    [] r.action = "input" -> <<valueText(r.value), "\\r">>
    [] OTHER -> <<"\\r">>

\* the confirm parsers; "claude-code-confirm" is the name of both copies
ConfirmParsers ==
  {"yesno-confirm", "claude-code-confirm", "claude-code-confirm/keys"}

\* parser.formatResponse(info, response)
formatResponseOf(parser, type, r) ==
  CASE parser = "yesno-confirm" -> yesNoFormatResponse(type, r)
    [] parser = "claude-code-confirm" -> claudeCodeFormatResponse(type, r)
    [] OTHER -> claudeCodeFormatResponseKeys(type, r)

\* a call of formatResponse on a confirm parser
formatResponseCall ==
  \E parser \in ConfirmParsers, type \in InfoTypes, r \in ConfirmResponses :
    /\ formatted' = [parser |-> parser, type |-> type, response |-> r,
                     bytes |-> formatResponseOf(parser, type, r)]
    /\ UNCHANGED <<driverVars, managerVars, registryVars, activityVars,
                   outputVars, fingerprintVars>>

NextFormat == formatResponseCall

\* the confirm parsers, every kind of confirmation, every response
SpecFormat == Init /\ [][NextFormat]_vars

(* ---------------------- the fingerprint registry ---------------------- *)

\* the registry after register(fp) on the registry r: the fingerprint is
\* set under its id; catList.push(fp), then
\* catList.sort((a, b) => b.priority - a.priority): the sort is stable and
\* the list was sorted before, so fp comes after the fingerprints of its
\* priority or more and before the others
registered(r, fp) ==
  [fingerprints |-> [r.fingerprints EXCEPT ![fp.id] = fp],
   byCategory |->
     [r.byCategory EXCEPT
        ![fp.category] =
           SelectSeq(@, LAMBDA p : p.priority >= fp.priority)
             \o <<fp>>
             \o SelectSeq(@, LAMBDA p : p.priority < fp.priority)]]

\* FingerprintRegistry.register
fingerprintRegister(fp) ==
  /\ registers < MaxRegisters
  /\ registers' = registers + 1
  /\ LET r == registered([fingerprints |-> fingerprints,
                          byCategory |-> byCategory], fp)
     IN /\ fingerprints' = r.fingerprints
        /\ byCategory' = r.byCategory
  /\ UNCHANGED <<driverVars, managerVars, registryVars, activityVars,
                 outputVars, formatVars>>

\* FingerprintRegistry.registerAll of two fingerprints: register on each,
\* in the order of the array
fingerprintRegisterAll(fp1, fp2) ==
  /\ registers + 1 < MaxRegisters
  /\ registers' = registers + 2
  /\ LET r == registered(registered([fingerprints |-> fingerprints,
                                     byCategory |-> byCategory], fp1), fp2)
     IN /\ fingerprints' = r.fingerprints
        /\ byCategory' = r.byCategory
  /\ UNCHANGED <<driverVars, managerVars, registryVars, activityVars,
                 outputVars, formatVars>>

\* FingerprintRegistry.clear
fingerprintClear ==
  /\ registers > 0
  /\ fingerprints' = [id \in FpIds |-> NoFingerprint]
  /\ byCategory' = [c \in Categories |-> <<>>]
  /\ UNCHANGED <<registers, driverVars, managerVars, registryVars,
                 activityVars, outputVars, formatVars>>

NextFingerprint ==
  \/ \E fp \in Fingerprints : fingerprintRegister(fp)
  \/ \E fp1, fp2 \in Fingerprints : fingerprintRegisterAll(fp1, fp2)
  \/ fingerprintClear

\* one fingerprint registry and its callers
SpecFingerprint == Init /\ [][NextFingerprint]_vars

(* ------------------------------ claims -------------------------------- *)

\* an event of kind name is among the events of the step just taken
Emits(name) == \E i \in DOMAIN emitted : emitted[i].ev = name

\* C1: an exec called in idle, whose driver the tick moved out of idle and
\* then back to idle while the call was waiting, returns its result; it does
\* not end with a timeout (or any other error).
C1_ExecReturnsOnceBackInIdle ==
  (exec.pc = "done" /\ exec.backSeen) => exec.result = "returned"

\* C2: an exec called while the driver's state is not idle fails with the
\* state error (or with not-found when the manager does not hold the
\* session) and nothing else happens: no bytes reach the child, the history
\* gets no entry, the state stays, no wait is started.
C2_ExecRejectedOutsideIdle ==
  [][(last'.op = "exec" /\ calls' = calls + 1 /\ tState # "idle")
       => /\ last'.err = IF Found(last'.via) THEN "state" ELSE "not_found"
          /\ written' = <<>>
          /\ history' = history
          /\ tState' = tState
          /\ exec' = exec]_vars

\* exec has just been refused in state confirming
C2_Witness ==
  /\ last.op = "exec"
  /\ last.err = "state"
  /\ tState = "confirming"

C4_ExitedAbsorbing ==
  [][tState = "exited" => tState' = "exited"]_vars

\* C5: a waitForState for a target other than error and exited, issued
\* through the driver or the manager, is pending no longer once the driver
\* enters error or exited.
C5_WaiterRejectedOnErrorOrExit ==
  [][(/\ twait.status = "pending"
      /\ twait.target \notin {"error", "exited"}
      /\ tState \notin {"error", "exited"}
      /\ tState' \in {"error", "exited"})
       => twait'.status # "pending"]_vars

\* C6: a waiter that was outstanding when the child exited is settled by
\* the exit; it is not left to run into its own timeout.
C6_WaitersSettledByExit ==
  ~(twait.status = "timeout" /\ twait.exitSeen)

\* C7: the exit of the child moves the driver to exited and emits exit and
\* nothing else; once a child has exited the driver emits no state_change,
\* no confirm_required and no further exit.
C7_ExitOnceThenSilent ==
  [][/\ (sState # "exited" /\ sState' = "exited")
          => (tState' = "exited" /\ emitted' = <<Ev("exit", "-", "-")>>)
     /\ sState = "exited"
          => \A i \in DOMAIN emitted' :
               emitted'[i].ev \notin {"state_change", "confirm_required", "exit"}
    ]_vars

\* C8: whenever a pending confirmation is recorded for a session whose
\* child has not exited, in the driver or in the manager's entry of the
\* session, the driver's state is confirming.
C8_PendingOnlyWhileConfirming ==
  (sState # "exited" /\ (pending # NoConfirm \/ (inMap /\ mPending # "none")))
    => tState = "confirming"

\* C9: when confirm has cleared the pending confirmation and the state is
\* still confirming, the next tick takes the state out of confirming (or
\* records a pending confirmation again).
C9_ConfirmingEndsWithinOneTick ==
  [][(last'.op = "tick" /\ tState = "confirming" /\ pending = NoConfirm)
       => (tState' # "confirming" \/ pending' # NoConfirm)]_vars

\* C10: no session the manager's map holds has state exited, in the driver
\* or in the PTY session under it.
C10_NoExitedSessionInMap ==
  inMap => (tState # "exited" /\ sState # "exited")

\* the child of a session the manager created has just exited and the
\* entry is gone
C10_Witness ==
  /\ driver = "managed"
  /\ Emits("exit")
  /\ tState = "exited"
  /\ ~inMap

\* C11: under any interleaving of create, destroy, sweep and child exit the
\* manager's map never holds more than maxSessions sessions.
C11_MapWithinCap ==
  Cardinality(InManagerMap) <= maxSessions

\* C12: a tick that finds the screen unchanged since the previous tick
\* emits no event, writes nothing to the PTY and leaves the state, the
\* pending confirmation (the driver's and the manager's) and every waiter
\* as they were.
C12_UnchangedScreenTickIsSilent ==
  [][(last'.op = "tick" /\ screen = lastScreen)
       => /\ emitted' = <<>>
          /\ written' = <<>>
          /\ tState' = tState
          /\ pending' = pending
          /\ mPending' = mPending
          /\ twait' = twait
          /\ exec' = exec]_vars

\* a tick has just run on a screen it had seen before, on which the
\* parsers loaded since then would detect a confirmation: nothing is pending
C12_Witness ==
  /\ last = Tick
  /\ screen = lastScreen
  /\ detectConfirm(registry, screen) # NoConfirm
  /\ pending = NoConfirm
  /\ written = <<>>
  /\ tState = "starting"

\* C13: in a tick on a changed screen where the confirm dispatcher detects
\* a confirmation that no permission checker handles, the detected
\* {info, parser} becomes the pending confirmation and the state after the
\* tick is confirming, whatever the state detectors return for the screen;
\* where no confirmation is detected, the pending confirmation stays and the
\* state is the one the state detectors return (unchanged if they return
\* none).
C13_ConfirmBeforeStateDetectors ==
  [][(last'.op = "tick" /\ screen # lastScreen)
       => LET c == detectConfirm(registry, screen)
              s == detectState(registry, screen)
          IN IF c # NoConfirm
             THEN (checker \in {"allow", "deny"} /\ InfoHasTool(c.info))
                    \/ (pending' = c /\ tState' = "confirming")
             ELSE /\ pending' = pending
                  /\ tState' = IF s = "none" THEN tState ELSE s]_vars

\* a tick has just stored a confirmation and entered confirming on a screen
\* for which the state detectors return tool_running
C13_Witness ==
  /\ last = Tick
  /\ Emits("confirm_required")
  /\ detectState(registry, screen) = "tool_running"
  /\ pending = detectConfirm(registry, screen)
  /\ pending # NoConfirm
  /\ tState = "confirming"

\* C14: a tick on a changed screen that detects a confirmation writes the
\* parser-formatted confirm response when a checker decides allow on its
\* tool info, the parser-formatted deny response when it decides deny, and
\* in every other case (decision confirm, no checker, no tool info) writes
\* nothing, ends in confirming and, coming from another state, emits
\* confirm_required.
C14_CheckerDecides ==
  [][(last'.op = "tick" /\ screen # lastScreen
        /\ detectConfirm(registry, screen) # NoConfirm)
       => LET c == detectConfirm(registry, screen)
          IN IF checker \in {"allow", "deny"} /\ InfoHasTool(c.info)
             THEN written' =
                    <<formatResponse(c.parser, c.info,
                        IF checker = "allow" THEN "confirm" ELSE "deny")>>
             ELSE /\ written' = <<>>
                  /\ tState' = "confirming"
                  /\ (tState # "confirming")
                       => (\E i \in DOMAIN emitted' :
                             emitted'[i] = Ev("confirm_required", c.info, "-"))
    ]_vars

\* C15: a tick taken while a confirmation is pending and the state is
\* confirming emits no confirm_required, also when it detects a
\* confirmation again.
C15_ConfirmRequiredOncePerAcquisition ==
  [][(tState = "confirming" /\ pending # NoConfirm)
       => \A i \in DOMAIN emitted' : emitted'[i].ev # "confirm_required"]_vars

\* the manager recorded the confirmation of the one confirm_required it
\* received (A); a later tick has detected another one (B) in confirming
\* and emitted nothing
C15_Witness ==
  /\ last = Tick
  /\ inMap
  /\ mPending = "A"
  /\ pending.info = "B"
  /\ tState = "confirming"
  /\ emitted = <<>>

\* C16: every state_change(new, prev) the driver emits belongs to one
\* transition of the driver made in that step: prev is the state before,
\* new the state after, and they differ; no step emits two of them, and a
\* tick that leaves the state as it is emits none.
C16_StateChangeIsATransition ==
  [][/\ \A i \in DOMAIN emitted' :
          emitted'[i].ev = "state_change"
            => /\ emitted'[i].prev = tState
               /\ emitted'[i].new = tState'
               /\ tState' # tState
     /\ Cardinality({i \in DOMAIN emitted' :
                       emitted'[i].ev = "state_change"}) <= 1]_vars

\* a tick has just taken the driver from thinking to idle and emitted
\* state_change(idle, thinking)
C16_Witness ==
  /\ last = Tick
  /\ tState = "idle"
  /\ emitted = <<Ev("state_change", "idle", "thinking")>>

\* C17: confirm called on the driver with no pending confirmation, and
\* respondToConfirm called on the manager for a held session with no
\* pending confirmation in its entry or in its driver, fail with the
\* no-pending error and write nothing; a confirm that follows a successful
\* confirm with nothing in between fails that way.
C17_ConfirmWithoutPendingFails ==
  [][/\ (calls' = calls + 1 /\ last'.op = "confirm" /\ pending = NoConfirm)
          => (last'.err = "no_pending" /\ written' = <<>>)
     /\ (calls' = calls + 1 /\ last'.op = "respond" /\ inMap
           /\ (mPending = "none" \/ pending = NoConfirm))
          => (last'.err = "no_pending" /\ written' = <<>>)
     /\ (calls' = calls + 1 /\ last'.op = "confirm"
           /\ last.op = "confirm" /\ last.err = "none")
          => (last'.err = "no_pending" /\ written' = <<>>)]_vars

\* a confirm has just failed for want of a pending confirmation in a driver
\* that is still in confirming: the one it had was answered before
C17_Witness ==
  /\ last = Result("confirm", "driver", "no_pending")
  /\ tState = "confirming"
  /\ pending = NoConfirm
  /\ written = <<>>

\* C18: a successful confirm writes exactly the bytes that formatResponse
\* of the remembered parser returns for the pending info and the response,
\* and clears the pending confirmation; for the options dialog, which only
\* the Claude Code parser detects, these are "1\\r" or "3\\r" whatever
\* the registry holds by now.
C18_ConfirmUsesDetectingParser ==
  [][(calls' = calls + 1 /\ last'.op = "confirm" /\ last'.err = "none")
       => /\ pending' = NoConfirm
          /\ \E a \in {"confirm", "deny"} :
               written' = <<formatResponse(pending.parser, pending.info, a)>>
          /\ pending.info = "A"
               => /\ pending.parser = "claude-code-confirm"
                  /\ written' \in {<<"1\\r">>, <<"3\\r">>}]_vars

\* a confirm has just written the Claude Code parser's bytes for the options
\* dialog although the registry holds the shell preset by now
C18_Witness ==
  /\ last = Result("confirm", "driver", "none")
  /\ registry = "shell"
  /\ written \in {<<"1\\r">>, <<"3\\r">>}
  /\ pending = NoConfirm

\* C19: when the manager's create has succeeded, the registry of the new
\* session's driver holds the parsers of a preset (the one asked for).
C19_CreateLoadsPreset ==
  (last = Result("create", "manager", "none")) => registry \in Presets

\* list s holds each parser as often as list t does
SameParsers(s, t) ==
  /\ Len(s) = Len(t)
  /\ \A n \in {s[i] : i \in DOMAIN s} \cup {t[i] : i \in DOMAIN t} :
       Cardinality({i \in DOMAIN s : s[i] = n})
         = Cardinality({i \in DOMAIN t : t[i] = n})

\* list s is in descending priority order
Descending(s) ==
  \A i, j \in DOMAIN s : i < j => priority(s[i]) >= priority(s[j])

\* C20: from loadPreset(p) on, until the registry is changed again, each
\* of the three collections holds exactly p's parsers of that kind, none of
\* the parsers registered before, in descending priority order; this is
\* what a tick that dispatches after the load reads.
C20_LoadPresetReplaces ==
  (regLast.op = "load" \/ (regLast.op = "dispatch" /\ regLast.arg \in PresetNames))
    => \A kind \in Kinds :
         /\ SameParsers(parsers[kind], presetParsers(regLast.arg)[kind])
         /\ Descending(parsers[kind])

\* the shell preset has just been loaded into a registry: its output
\* parsers, written json, table, diff, are held as json, diff, table
C20_Witness ==
  /\ regLast = [op |-> "load", arg |-> "shell"]
  /\ parsers.output = <<"json-output", "diff-output", "table-output">>
  /\ parsers.state = <<"shell-state">>

\* the entries of a list whose parser produced a result in the dispatch
Matching(list) ==
  {i \in DOMAIN list : outcome(found.beh, list[i]).kind = "result"}

\* C21: the result of a state dispatch or an output dispatch comes from
\* a parser of the list that matched, carries the highest confidence of all
\* the matching parsers, and among those of that confidence it is the
\* earliest of the list, whose priority none of the others exceeds.
C21_WinnerHasMaxConfidence ==
  (found.kind \in {"state", "output"} /\ found.result # NoResult)
    => LET list == parsers[found.kind]
           r == found.result
       IN /\ r.idx \in Matching(list)
          /\ r.parser = list[r.idx]
          /\ r.confidence = outcome(found.beh, r.parser).confidence
          /\ \A j \in Matching(list) :
               LET c == outcome(found.beh, list[j]).confidence
               IN /\ c <= r.confidence
                  /\ c = r.confidence
                       => /\ r.idx <= j
                          /\ priority(r.parser) >= priority(list[j])

\* both state parsers of the docker preset match with the same confidence:
\* the one of higher priority is returned
C21_Witness ==
  /\ found.kind = "state"
  /\ parsers.state = <<"docker-state", "shell-state">>
  /\ found.beh["docker-state"] = Out("result", 9)
  /\ found.beh["shell-state"] = Out("result", 9)
  /\ found.result = [idx |-> 1, parser |-> "docker-state", confidence |-> 9]

\* C22: detectConfirm returns the detection of the first parser of the
\* list, which is in descending priority order, that detects a confirmation,
\* paired with that parser; no parser of lower priority replaces it, and
\* null comes back only when no parser of the list detects one.
C22_FirstDetectionWins ==
  found.kind = "confirm"
    => LET list == parsers.confirm
           r == found.result
       IN /\ (r = NoResult) <=> (Matching(list) = {})
          /\ Matching(list) # {}
               => /\ r.idx \in Matching(list)
                  /\ r.parser = list[r.idx]
                  /\ \A j \in Matching(list) :
                       /\ r.idx <= j
                       /\ priority(r.parser) >= priority(list[j])

\* both confirm parsers of the claude-code preset detect the dialog: the
\* detection of claude-code-confirm is returned
C22_Witness ==
  /\ found.kind = "confirm"
  /\ parsers.confirm = <<"claude-code-confirm", "yesno-confirm">>
  /\ found.beh["claude-code-confirm"] = Out("result", 0)
  /\ found.beh["yesno-confirm"] = Out("result", 0)
  /\ found.result.parser = "claude-code-confirm"

\* the parsers of a list that threw in the dispatch
Threw(list) ==
  {list[i] : i \in {j \in DOMAIN list :
     outcome(found.beh, list[j]).kind \in {"throw", "throwCanParse"}}}

\* C23: a parser that throws in detectState, canParse, parse or
\* detectConfirm counts as one that found nothing: the dispatch returns what
\* it returns over the registry without that parser, and no exception leaves
\* the dispatch, so the tick goes on.
C23_ThrowingParserIsSkipped ==
  found.kind # "none"
    => /\ found.result # Raised
       /\ \A n \in Threw(parsers[found.kind]) :
            LET r == dispatchOver(found.kind,
                       unregisterFrom(parsers[found.kind], n), found.beh)
            IN /\ r.parser = found.result.parser
               /\ r.confidence = found.result.confidence

\* claude-code-confirm throws on the dialog and yesno-confirm detects it:
\* the detection of yesno-confirm is returned
C23_Witness ==
  /\ found.kind = "confirm"
  /\ parsers.confirm = <<"claude-code-confirm", "yesno-confirm">>
  /\ found.beh["claude-code-confirm"] = Out("throw", 0)
  /\ found.beh["yesno-confirm"] = Out("result", 0)
  /\ found.result = [idx |-> 2, parser |-> "yesno-confirm", confidence |-> 0]

\* the priorities that parsers have
Priorities == {priority(n) : n \in
  UNION {Singles[kind] \cup Custom[kind] : kind \in Kinds}
    \cup {"claude-code-status", "claude-code-tool", "claude-code-content",
           "claude-code-title", "diff-output"}}

\* the entries of a list that have priority p, in the order of the list
OfPriority(list, p) == SelectSeq(list, LAMBDA n : priority(n) = p)

\* C24: whatever register, register-many, unregister and clear calls were
\* made, each of the three lists is in non-increasing priority order, a
\* parser without a priority counting as one of priority 0, and the
\* parsers of one priority stand in the order they were registered in.
C24_ListsSortedStable ==
  \A kind \in Kinds :
    /\ Descending(parsers[kind])
    /\ Len(parsers[kind]) = Len(order[kind])
    /\ \A p \in Priorities :
         OfPriority(parsers[kind], p) = OfPriority(order[kind], p)

\* plain-state (no priority), docker-state (50) and my-tool-state (50)
\* were registered in one call, in this order: the two of priority 50 stand
\* in front, in the order of the array, and plain-state is last
C24_Witness ==
  /\ regLast = [op |-> "registerMany", arg |-> "state"]
  /\ order.state = <<"plain-state", "docker-state", "my-tool-state">>
  /\ parsers.state = <<"docker-state", "my-tool-state", "plain-state">>

\* C25: destroy on a session of the map ends with the session out of the
\* map. A forced destroy kills and deletes at once. The other one calls
\* close with the exit text: either exit is written and the destroy waits for
\* the close, after which the session is deleted, or the close returns or
\* throws at once and the session is killed and deleted.
C25_DestroyRemoves ==
  /\ [][(inMap /\ destroy(TRUE)) => (~inMap' /\ pty' = 0)]_vars
  /\ [][(inMap /\ destroy(FALSE))
         => \/ written' = <<"exit\\r">> /\ "destroy" \in closing'
            \/ ~inMap' /\ pty' = 0]_vars
  /\ ("destroy" \in closing) ~> ~inMap

\* a destroy without force has written exit and waits for the close; the
\* session is still in the map
C25_Witness ==
  /\ last = Result("destroy", "manager", "none")
  /\ written = <<"exit\\r">>
  /\ "destroy" \in closing
  /\ inMap

\* C26: a run of the idle sweep destroys the sessions of the map whose
\* lastActivity lies more than idleTimeout before the time of the sweep,
\* all of them and no other session; none of them is in the map afterwards.
C26_SweepRemovesExactlyIdle ==
  [][cleanupTimer
       => LET old == {i \in Ids : /\ sessions[i] \in {"held", "closing"}
                                  /\ now - lastActivity[i] > idleTimeout}
          IN /\ \A i \in Ids : (sessions'[i] # sessions[i]) <=> (i \in old)
             /\ \A i \in old : sessions'[i] = "gone"
             /\ \A i \in Ids :
                  sessions'[i] \in {"held", "closing"}
                    => now' - lastActivity'[i] <= idleTimeout]_vars

\* a sweep has destroyed sessions, and a session whose last activity is
\* exactly idleTimeout old is still in the map
C26_Witness ==
  /\ swept # {}
  /\ \A i \in swept : sessions[i] = "gone"
  /\ \E j \in Ids : /\ sessions[j] = "held"
                     /\ now - lastActivity[j] = idleTimeout

C29_CloseNeverRaises ==
  last.op = "close" => last.err = "none"

\* C30: write, send and interrupt on a driver that was never started fail
\* with the session-not-started error, on a driver whose child has exited
\* they fail with the session-exited error, and in both cases nothing is
\* written to the PTY.
C30_WriteFailsByLifecycle ==
  (last.via = "driver" /\ last.op \in {"write", "send", "interrupt"})
    => /\ spawned = 0 => (last.err = "not_started" /\ written = <<>>)
       /\ sState = "exited" => (last.err = "exited" /\ written = <<>>)

\* the byte strings a step may hand to pty.write, by the operation that
\* ran in it (the pending confirmation and the screen are the ones before
\* the step)
Responses(c) ==
  {<<formatResponse(c.parser, c.info, a)>> : a \in {"confirm", "deny"}}

PtyBytes(r) ==
  IF r.err # "none" THEN {<<>>}
  ELSE CASE r.op = "write" -> {<<"raw">>}
         [] r.op = "interrupt" -> {<<"\\x03">>}
         [] r.op = "send" -> {<<"msg", "\\r">>}
         [] r.op = "exec" -> {<<"cmd", "\\r">>}
         [] r.op \in {"confirm", "respond"} -> Responses(pending)
         [] r.op = "tick" ->
              {<<>>} \cup Responses(detectConfirm(registry, screen))
         [] r.op \in {"close", "destroy"} -> {<<>>, <<"exit\\r">>}
         [] OTHER -> {<<>>}

\* C31: what the PTY receives in a step is exactly the bytes of the call
\* that ran in that step: the data of a successful write, the message then
\* \r of a send (exec sends its command the same way), \x03 of an
\* interrupt, the formatted response of a confirm or of the tick's automatic
\* confirm, the exit command a close writes; a failed call and every other
\* step write nothing. Calls run one at a time, so the PTY's input is the
\* concatenation of the calls' bytes in call order.
C31_BytesInCallOrder ==
  [][written' \in PtyBytes(last')]_vars

\* a send has written its message and \r, right after an earlier write
C31_Witness ==
  /\ last = Result("send", "driver", "none")
  /\ written = <<"msg", "\\r">>
  /\ calls = 3

\* the bytes the Claude-Code parser is to return: the keys that answer the
\* dialog
ClaudeCodeBytes(type, r) ==
  CASE r.action = "input" -> <<valueText(r.value), "\\r">>
    [] type = "options" /\ r.action = "confirm" -> <<"\\r">>
    [] type = "options" /\ r.action = "deny" -> <<Down, Down, "\\r">>
    [] type = "options" /\ r.action = "select" ->
         Repeat(Down, r.option.n - 1) \o <<"\\r">>
    [] type = "yesno" /\ r.action = "confirm" -> <<"y", "\\r">>
    [] type = "yesno" /\ r.action = "deny" -> <<"n", "\\r">>

\* the cases C32 speaks of: confirm and deny of an options or yes/no
\* confirmation, select of a numbered option, input of a given value
ClaudeCodeCase(type, r) ==
  \/ r.action = "input" /\ r.value # "absent"
  \/ type \in {"options", "yesno"} /\ r.action \in {"confirm", "deny"}
  \/ type = "options" /\ r.action = "select" /\ r.option.kind = "number"

\* C32: the Claude-Code confirm parser formats confirm on an options
\* dialog as Enter, deny as Down Down Enter, select(n) as n-1 times Down
\* then Enter; confirm and deny on a yes/no dialog as y Enter and n Enter;
\* input as the value then Enter.
C32_ClaudeCodeFormatResponse ==
  (/\ formatted.parser \in {"claude-code-confirm", "claude-code-confirm/keys"}
   /\ ClaudeCodeCase(formatted.type, formatted.response))
    => formatted.bytes = ClaudeCodeBytes(formatted.type, formatted.response)

\* C33: while the driver of a session of the manager holds a pending
\* confirmation, the manager's record of the session holds the same
\* confirmation: getPendingConfirm returns it and respondToConfirm does not
\* throw 'No pending confirmation'. This includes a confirmation detected
\* while the driver is still in confirming after an earlier one was answered.
C33_ManagerSeesPendingConfirm ==
  (inMap /\ pending # NoConfirm) => mPending = pending.info

\* C34: with a permission checker that decides allow or deny, the tick
\* writes at most one response to a dialog for as long as that dialog stays
\* on the screen, however often the screen changes around it.
C34_OneResponsePerDialog ==
  answered <= 1

\* C35: while an exec of a session is in flight (it has sent its command
\* and waits for the state to leave idle or to come back), an exec called
\* on the same session is rejected and writes nothing: the commands of two
\* overlapping execs never both reach the PTY.
C35_SecondExecRejected ==
  [][(/\ exec.pc \in {"leave", "back"}
      /\ calls' = calls + 1
      /\ last'.op = "exec"
      /\ last'.err # "not_found")
       => (last'.err # "none" /\ written' = <<>>)]_vars

\* C36: a send appends its message to the history exactly when its bytes
\* were written: a successful send adds one message at the end, after all
\* the earlier ones; a send that throws (session not found, not started or
\* exited) leaves the history as it was.
C36_HistoryOnlyOnWrittenSend ==
  [][(calls' = calls + 1 /\ last'.op = "send")
       => history' = IF last'.err = "none" THEN Append(history, "msg")
                     ELSE history]_vars

\* C37: when destroyAll completes the manager's map is empty and its
\* cleanup interval is cleared, also when a create was suspended at its
\* await while destroyAll ran.
C37_DestroyAllLeavesNothing ==
  [][(dAll = "waiting" /\ dAll' = "done")
       => (InManagerMap' = {} /\ ~sweepOn')]_vars

\* C38: detectState and parseOutput return a result exactly when some
\* parser of the list returned a record (whatever its confidence, 0
\* included), and null exactly when none did.
C38_ResultWheneverAParserMatched ==
  found.kind \in {"state", "output"}
    => (found.result # NoResult <=> Matching(parsers[found.kind]) # {})

\* C39: the two indexes of a fingerprint registry agree after any sequence
\* of register, registerAll and clear: every fingerprint in a category list
\* is the one stored under its id, no id occurs twice in a category list,
\* and every category list is in descending order of priority.
C39_IndexesAgree ==
  \A c \in Categories :
    LET list == byCategory[c]
    IN /\ \A k \in DOMAIN list : fingerprints[list[k].id] = list[k]
       /\ \A j, k \in DOMAIN list : list[j].id = list[k].id => j = k
       /\ \A j, k \in DOMAIN list :
            j < k => list[j].priority >= list[k].priority

====
